---- MODULE Spec2Model ----
(***************************************************************************)
(* Model of the typhos command line utility (src/typhos/cli.py):           *)
(* typhos_cli_setup, create_suite and typhos_cli.                          *)
(*                                                                         *)
(* Strings are sequences of one-character strings, so that the class-spec  *)
(* regular expression and the literal parser work on the characters of a   *)
(* token.  A Python dict is a sequence of [k, v] entries in insertion      *)
(* order.                                                                  *)
(***************************************************************************)
EXTENDS Integers, Sequences, FiniteSets, TLC

(***************************************************************************)
(* Bounds of the model.                                                    *)
(***************************************************************************)
MaxDevices == 2
MaxCalls == 2
MaxTokLen == 6

None == "None"

Max(S) == CHOOSE x \in S : \A y \in S : y <= x

(***************************************************************************)
(* Character classes of klass_regex.                                       *)
(***************************************************************************)
Letters == {"K", "m", "d", "e", "v", "n", "a", "p", "x", "i", "c"}
Digits == <<"0", "1", "2", "3", "4", "5", "6", "7", "8", "9">>

IsLetter(c) == c \in Letters
IsIdentChar(c) == IsLetter(c) \/ c = "." \/ c = "_"
IsDot(c) == c # "\n"

\* klass_regex (lines 97-99): a letter, then letters, dots and underscores,
\* then an opening bracket, then any number of groups "{" any+ "}", then any
\* number of commas, then a closing bracket.
\* Each operator returns [ok, end, klass, args]: whether the rest of the
\* pattern matches from a position, where the match ends, and the groups.
NoMatch == [ok |-> FALSE, end |-> 0, klass |-> <<>>, args |-> <<>>]

\* [a-zA-Z\.\_]* from position i, greedy: the first position that is not an
\* identifier character
RECURSIVE IdentEnd(_, _)
IdentEnd(s, i) ==
    IF i <= Len(s) /\ IsIdentChar(s[i]) THEN IdentEnd(s, i + 1) ELSE i

\* [\,]* from position p, greedy: the first position that is not a comma
RECURSIVE CommasEnd(_, _)
CommasEnd(s, p) ==
    IF p <= Len(s) /\ s[p] = "," THEN CommasEnd(s, p + 1) ELSE p

\* [\,]*\] from position p
RegexTail(s, p, klass, args) ==
    LET k == CommasEnd(s, p)
    IN  IF k <= Len(s) /\ s[k] = "]"
        THEN [ok |-> TRUE, end |-> k, klass |-> klass, args |-> args]
        ELSE NoMatch

\* (\{.+})* from position p, greedy, followed by the tail; args is the text
\* of the last repetition of the group matched so far
RECURSIVE RegexGroupStar(_, _, _, _)
RegexGroupStar(s, p, klass, args) ==
    LET qs == IF p <= Len(s) /\ s[p] = "{"
              THEN {q \in (p + 2)..Len(s) :
                       /\ s[q] = "}"
                       /\ \A j \in (p + 1)..(q - 1) : IsDot(s[j])
                       /\ RegexGroupStar(s, q + 1, klass, SubSeq(s, p, q)).ok}
              ELSE {}
    IN  IF qs # {}
        THEN RegexGroupStar(s, Max(qs) + 1, klass, SubSeq(s, p, Max(qs)))
        ELSE RegexTail(s, p, klass, args)

\* the whole pattern, anchored at position i
RegexMatchAt(s, i) ==
    IF ~IsLetter(s[i]) THEN NoMatch
    ELSE LET e == IdentEnd(s, i + 1)
         IN  IF e <= Len(s) /\ s[e] = "["
             THEN RegexGroupStar(s, e + 1, SubSeq(s, i, e - 1), <<>>)
             ELSE NoMatch

\* klass_regex.findall(device): the groups of the non-overlapping matches,
\* scanning from the left
RECURSIVE FindAllFrom(_, _)
FindAllFrom(s, i) ==
    IF i > Len(s) THEN <<>>
    ELSE LET m == RegexMatchAt(s, i)
         IN  IF m.ok
             THEN <<[klass |-> m.klass, args |-> m.args]>> \o FindAllFrom(s, m.end + 1)
             ELSE FindAllFrom(s, i + 1)

\* a pattern whose bracket part is optional: a token without a match counts
\* as a class name
klass_regex_findall_OptionalBrackets(device) ==
    IF FindAllFrom(device, 1) = <<>>
    THEN <<[klass |-> device, args |-> <<>>]>>
    ELSE FindAllFrom(device, 1)

klass_regex_findall(device) == FindAllFrom(device, 1)

\* line 104: the token takes the class-spec path when findall found a match
HasMatch(result) == Len(result) > 0

(***************************************************************************)
(* Python dicts and ast.literal_eval on the literals the tokens use:       *)
(* {'key': value, ...} with single-quoted string keys and values that are  *)
(* single-quoted strings or decimal integers.                              *)
(***************************************************************************)
StrVal(s) == [kind |-> "str", s |-> s, n |-> 0]
IntVal(n) == [kind |-> "int", s |-> <<>>, n |-> n]

DictHas(d, k) == \E i \in 1..Len(d) : d[i].k = k
DictGet(d, k) == d[CHOOSE i \in 1..Len(d) : d[i].k = k].v
DictKeys(d) == {d[i].k : i \in 1..Len(d)}

\* d[k] = v: an existing key keeps its place, a new key goes last
DictSet(d, k, v) ==
    IF DictHas(d, k)
    THEN [i \in 1..Len(d) |-> IF d[i].k = k THEN [k |-> k, v |-> v] ELSE d[i]]
    ELSE Append(d, [k |-> k, v |-> v])

\* the update the other way round: the keys d already has keep their values
RECURSIVE DictUpdate_DefaultsWin(_, _)
DictUpdate_DefaultsWin(d, other) ==
    IF other = <<>> THEN d
    ELSE DictUpdate_DefaultsWin(
             IF DictHas(d, Head(other).k) THEN d
             ELSE DictSet(d, Head(other).k, Head(other).v),
             Tail(other))

\* d.update(other)
RECURSIVE DictUpdate(_, _)
DictUpdate(d, other) ==
    IF other = <<>> THEN d
    ELSE DictUpdate(DictSet(d, Head(other).k, Head(other).v), Tail(other))

ParseFail == [ok |-> FALSE, next |-> 0, value |-> StrVal(<<>>)]

\* the first position from p that holds a quote, or Len(s) + 1
RECURSIVE QuoteAt(_, _)
QuoteAt(s, p) ==
    IF p <= Len(s) /\ s[p] # "'" THEN QuoteAt(s, p + 1) ELSE p

\* a single-quoted string starting at p
ParseStr(s, p) ==
    IF p > Len(s) \/ s[p] # "'" THEN ParseFail
    ELSE LET q == QuoteAt(s, p + 1)
         IN  IF q > Len(s) THEN ParseFail
             ELSE [ok |-> TRUE, next |-> q + 1, value |-> StrVal(SubSeq(s, p + 1, q - 1))]

DigitVal(c) == (CHOOSE i \in 1..10 : Digits[i] = c) - 1
IsDigit(c) == \E i \in 1..10 : Digits[i] = c

\* the first position from p that holds no digit
RECURSIVE DigitsEnd(_, _)
DigitsEnd(s, p) ==
    IF p <= Len(s) /\ IsDigit(s[p]) THEN DigitsEnd(s, p + 1) ELSE p

RECURSIVE DigitsToInt(_)
DigitsToInt(ds) ==
    IF ds = <<>> THEN 0
    ELSE 10 * DigitsToInt(SubSeq(ds, 1, Len(ds) - 1)) + DigitVal(ds[Len(ds)])

\* a decimal integer starting at p
ParseInt(s, p) ==
    IF p > Len(s) \/ ~IsDigit(s[p]) THEN ParseFail
    ELSE LET e == DigitsEnd(s, p)
         IN  [ok |-> TRUE, next |-> e, value |-> IntVal(DigitsToInt(SubSeq(s, p, e - 1)))]

ParseValue(s, p) == IF p <= Len(s) /\ s[p] = "'" THEN ParseStr(s, p) ELSE ParseInt(s, p)

LiteralError == [ok |-> FALSE, value |-> <<>>]

\* the items of a dict display from position p, up to the closing brace,
\* which must end the text
RECURSIVE ParseItems(_, _, _)
ParseItems(s, p, acc) ==
    IF p = Len(s) /\ s[p] = "}" THEN [ok |-> TRUE, value |-> acc]
    ELSE LET key == ParseStr(s, p)
         IN  IF ~key.ok \/ key.next > Len(s) \/ s[key.next] # ":" THEN LiteralError
             ELSE LET val == ParseValue(s, key.next + 1)
                      d == DictSet(acc, key.value.s, val.value)
                  IN  IF ~val.ok \/ val.next > Len(s) THEN LiteralError
                      ELSE IF s[val.next] = "," THEN ParseItems(s, val.next + 1, d)
                      ELSE IF s[val.next] = "}" /\ val.next = Len(s)
                           THEN [ok |-> TRUE, value |-> d]
                      ELSE LiteralError

\* ast.literal_eval(args) for the text of the second regex group; ok = FALSE
\* when it raises
literal_eval(s) ==
    IF Len(s) < 2 \/ s[1] # "{" THEN LiteralError
    ELSE IF Len(s) > 2 /\ s[2] = "," THEN LiteralError
    ELSE ParseItems(s, 2, <<>>)

(***************************************************************************)
(* Inputs: the device tokens given on the command line.                    *)
(***************************************************************************)
NameKey == <<"n", "a", "m", "e">>
DeviceName == <<"d", "e", "v", "i", "c", "e">>

\* dev : a plain name, to look up
TokName == <<"d", "e", "v">>
\* m.K[] : a class with no arguments
TokKlass == <<"m", ".", "K", "[", "]">>
\* m.K[{'name':'x','p':1}] : a class with arguments, one of them the name
TokKlassArgs ==
    <<"m", ".", "K", "[", "{", "'", "n", "a", "m", "e", "'", ":", "'", "x", "'", ",",
      "'", "p", "'", ":", "1", "}", "]">>
\* m.K[{x}] : a class whose arguments are not a literal
TokKlassBad == <<"m", ".", "K", "[", "{", "x", "}", "]">>

Tokens == {TokName, TokKlass, TokKlassArgs, TokKlassBad}
DeviceLists == UNION {[1..n -> Tokens] : n \in 0..MaxDevices}

\* the alphabet of the tokens the regular expression is exercised on
Alphabet == {"K", "1", "[", "]", "{", "}", ","}
AllTokens == UNION {[1..n -> Alphabet] : n \in 1..MaxTokLen}

(***************************************************************************)
(* State.                                                                  *)
(***************************************************************************)
VARIABLES
    app,                    \* the module global app (line 15)
    HappiClientState_client,\* typhos.plugins.happi.HappiClientState.client
    happi_importable,       \* whether import happi succeeds in this process
    ncalls,                 \* calls of typhos_cli or create_suite made so far
    clients_built,          \* clients happi.Client.from_config has returned
    pc,                     \* position in the running call
    caller,                 \* who called create_suite: "cli" or "direct"
    args,                   \* the parsed arguments of the running call
    happi_enabled,          \* local of create_suite
    client,                 \* local of create_suite ("unbound" before line 89/92)
    loaded_devs,            \* local of create_suite
    idx,                    \* position of the loop of line 101
    add_idx,                \* position of the loop of line 137
    suite,                  \* local of create_suite
    cs_state,               \* create_suite: notcalled, running, returned, raised
    calls,                  \* the calls made to collaborators, in order
    log,                    \* the log records issued, in order
    result,                 \* what the outermost call gave back
    rx_token,               \* a token given to klass_regex
    rx_result,              \* what findall returned for it
    rx_done                 \* whether findall has been applied to rx_token

vars == <<app, HappiClientState_client, happi_importable, ncalls, clients_built,
          pc, caller, args, happi_enabled, client, loaded_devs, idx, add_idx,
          suite, cs_state, calls, log, result, rx_token, rx_result, rx_done>>

process_vars == <<app, HappiClientState_client, happi_importable, ncalls, clients_built>>
frame_vars == <<caller, args, happi_enabled, client, loaded_devs, idx, add_idx,
                suite, cs_state>>
rx_vars == <<rx_token, rx_result, rx_done>>

\* the arguments that decide what the calls do: --verbose only sets the level of
\* the log handler and --dark only picks the stylesheet typhos.use_stylesheet
\* applies
NoArgs == [devices |-> <<>>, version |-> FALSE, stylesheet |-> None]
NoSuite == [made |-> FALSE, tools |-> {}, devices |-> <<>>, shown |-> <<>>]

\* a record of one call to a collaborator; i is the position of the token the
\* call is for (0 when it is for none)
Call(fn, i, kwargs, ok) == [fn |-> fn, i |-> i, kwargs |-> kwargs, ok |-> ok]

logger_debug(l, msg, i) == Append(l, [level |-> "DEBUG", msg |-> msg, i |-> i])
logger_info(l, msg, i) == Append(l, [level |-> "INFO", msg |-> msg, i |-> i])
\* the record issued as a warning
logger_error_AsWarning(l, msg, i) == Append(l, [level |-> "WARNING", msg |-> msg, i |-> i])
logger_error(l, msg, i) == Append(l, [level |-> "ERROR", msg |-> msg, i |-> i])
\* logger.exception logs at level ERROR, with the traceback
logger_exception(l, msg, i) == Append(l, [level |-> "ERROR", msg |-> msg, i |-> i])

\* the devices: what the class or the client returned
KlassDevice(i, kwargs) == [via |-> "class", i |-> i, kwargs |-> kwargs]
HappiDevice(i) == [via |-> "happi", i |-> i, kwargs |-> <<>>]

\* the state of a process that has made no call yet
InitProcess ==
    /\ app = None
    /\ ncalls = 0
    /\ clients_built = 0
    /\ pc = "idle"
    /\ caller = None
    /\ args = NoArgs
    /\ happi_enabled = FALSE
    /\ client = "unbound"
    /\ loaded_devs = <<>>
    /\ idx = 1
    /\ add_idx = 1
    /\ suite = NoSuite
    /\ cs_state = "notcalled"
    /\ calls = <<>>
    /\ log = <<>>
    /\ result = "pending"

Init ==
    /\ InitProcess
    /\ happi_importable \in BOOLEAN
    /\ HappiClientState_client \in (IF happi_importable THEN {None, "registered"} ELSE {None})
    /\ rx_token = <<>>
    /\ rx_result = <<>>
    /\ rx_done = FALSE

\* the locals of a call that starts
FreshFrame(who, a) ==
    /\ caller' = who
    /\ args' = a
    /\ happi_enabled' = FALSE
    /\ client' = "unbound"
    /\ loaded_devs' = <<>>
    /\ idx' = 1
    /\ add_idx' = 1
    /\ suite' = NoSuite
    /\ calls' = <<>>
    /\ log' = <<>>
    /\ result' = "pending"

\* typhos_cli(args), line 149: parser.parse_args
CallTyphosCli ==
    /\ pc = "idle"
    /\ ncalls < MaxCalls
    /\ \E devices \in DeviceLists, version \in BOOLEAN,
          stylesheet \in {None, "readable", "unreadable"} :
          FreshFrame("cli", [devices |-> devices, version |-> version,
                             stylesheet |-> stylesheet])
    /\ cs_state' = "notcalled"
    /\ ncalls' = ncalls + 1
    /\ pc' = "setup"
    /\ UNCHANGED <<app, HappiClientState_client, happi_importable, clients_built, rx_vars>>

\* create_suite(devices, cfg) called by other code of the process
CallCreateSuite ==
    /\ pc = "idle"
    /\ ncalls < MaxCalls
    /\ \E devices \in DeviceLists : FreshFrame("direct", [NoArgs EXCEPT !.devices = devices])
    /\ cs_state' = "running"
    /\ ncalls' = ncalls + 1
    /\ pc' = "cs_import"
    /\ UNCHANGED <<app, HappiClientState_client, happi_importable, clients_built, rx_vars>>

\* the version flag not looked at
VersionOnly_Ignored(a) == FALSE

\* line 58
VersionOnly(a) == a.version

\* typhos_cli_setup(args), lines 44-72
TyphosCliSetup ==
    /\ pc = "setup"
    /\ LET l1 == logger_debug(log, "Set logging level of %r to %r", 0)
           newapp == ~VersionOnly(args) /\ app = None
           l2 == IF newapp THEN logger_debug(l1, "Creating QApplication ...", 0) ELSE l1
           l3 == logger_debug(l2, "Applying stylesheet ...", 0)
           c1 == IF newapp THEN <<Call("QApplication", 0, <<>>, TRUE)>> ELSE <<>>
           c2 == c1 \o <<Call("use_stylesheet", 0, <<>>, TRUE)>>
       IN  IF VersionOnly(args)
           THEN /\ calls' = Append(calls, Call("print_version", 0, <<>>, TRUE))
                /\ log' = l1
                /\ app' = app
                /\ pc' = "cli_body"
                /\ result' = result
           ELSE /\ app' = "QApplication"
                /\ CASE args.stylesheet = None ->
                          /\ calls' = calls \o c2
                          /\ log' = l3
                          /\ pc' = "cli_body"
                          /\ result' = result
                     [] args.stylesheet = "readable" ->
                          /\ calls' = calls \o c2 \o <<Call("open", 0, <<>>, TRUE),
                                                      Call("setStyleSheet", 0, <<>>, TRUE)>>
                          /\ log' = logger_info(l3, "Loading QSS file %r ...", 0)
                          /\ pc' = "cli_body"
                          /\ result' = result
                     [] args.stylesheet = "unreadable" ->
                          \* open raises; nothing catches it up to typhos_cli
                          /\ calls' = calls \o c2 \o <<Call("open", 0, <<>>, FALSE)>>
                          /\ log' = logger_info(l3, "Loading QSS file %r ...", 0)
                          /\ pc' = "done"
                          /\ result' = "raised"
    /\ UNCHANGED <<HappiClientState_client, happi_importable, ncalls, clients_built,
                   frame_vars, rx_vars>>

\* typhos_cli, lines 151-153
TyphosCliBody ==
    /\ pc = "cli_body"
    /\ IF ~args.version
       THEN /\ cs_state' = "running"
            /\ pc' = "cs_import"
            /\ result' = result
       ELSE /\ cs_state' = cs_state
            /\ pc' = "done"
            /\ result' = None
    /\ UNCHANGED <<process_vars, caller, args, happi_enabled, client, loaded_devs, idx,
                   add_idx, suite, calls, log, rx_vars>>

\* create_suite, lines 77-84
ImportHappi ==
    /\ pc = "cs_import"
    /\ happi_enabled' = happi_importable
    /\ calls' = Append(calls, Call("import happi", 0, <<>>, happi_importable))
    /\ log' = LET l1 == logger_debug(log, "Accessing Happi Client ...", 0)
              IN  IF happi_importable THEN l1
                  ELSE logger_exception(l1, "Unable to import happi to load devices!", 0)
    /\ pc' = "cs_client"
    /\ UNCHANGED <<process_vars, caller, args, client, loaded_devs, idx, add_idx, suite,
                   cs_state, result, rx_vars>>

\* the registered client not looked at
ClientRegistered_Ignored(slot) == FALSE

\* line 87
ClientRegistered(slot) == slot # None

\* what the caller of create_suite sees when create_suite raises: typhos_cli
\* lets the exception through
CreateSuiteRaises ==
    /\ cs_state' = "raised"
    /\ result' = "raised"
    /\ pc' = "done"

\* create_suite, lines 86-95
GetClient ==
    /\ pc = "cs_client"
    /\ IF ~happi_enabled
       THEN /\ client' = client
            /\ calls' = calls
            /\ log' = log
            /\ clients_built' = clients_built
            /\ pc' = "cs_loop"
            /\ UNCHANGED <<cs_state, result>>
       ELSE IF ClientRegistered(HappiClientState_client)
       THEN /\ client' = HappiClientState_client
            /\ calls' = calls
            /\ log' = logger_debug(log, "Using happi Client already registered with Typhos", 0)
            /\ clients_built' = clients_built
            /\ pc' = "cs_loop"
            /\ UNCHANGED <<cs_state, result>>
       ELSE \E ok \in BOOLEAN :
            /\ calls' = Append(calls, Call("from_config", 0, <<>>, ok))
            /\ log' = logger_debug(log, "Creating new happi Client from configuration", 0)
            /\ IF ok
               THEN /\ client' = "new"
                    /\ clients_built' = clients_built + 1
                    /\ pc' = "cs_loop"
                    /\ UNCHANGED <<cs_state, result>>
               ELSE \* from_config raises, outside of any try
                    /\ client' = client
                    /\ clients_built' = clients_built
                    /\ CreateSuiteRaises
    /\ UNCHANGED <<app, HappiClientState_client, happi_importable, ncalls, caller, args,
                   happi_enabled, loaded_devs, idx, add_idx, suite, rx_vars>>

\* line 108
HasArgs(a) == a # <<>>

\* the device put at the front of the list
AppendDevice_Prepend(devs, device) == <<device>> \o devs

\* lines 113 and 124
AppendDevice(devs, device) == Append(devs, device)

\* create_suite, one turn of the loop of lines 101-126
LoadDevice ==
    /\ pc = "cs_loop"
    /\ idx <= Len(args.devices)
    /\ LET device == args.devices[idx]
           l0 == logger_info(log, "Loading %r ...", idx)
           res == klass_regex_findall(device)
       IN  IF HasMatch(res)
           THEN LET klass == res[1].klass
                    a == res[1].args
                    default_kwargs == <<[k |-> NameKey, v |-> StrVal(DeviceName)]>>
                    parsed == literal_eval(a)
                    lfail == logger_exception(l0, "Unable to load class entry: %s with args %s", idx)
                IN  IF HasArgs(a) /\ ~parsed.ok
                    THEN /\ calls' = Append(calls, Call("literal_eval", idx, <<>>, FALSE))
                         /\ log' = lfail
                         /\ loaded_devs' = loaded_devs
                    ELSE LET kwargs == IF HasArgs(a)
                                       THEN DictUpdate(default_kwargs, parsed.value)
                                       ELSE default_kwargs
                             c0 == IF HasArgs(a)
                                   THEN Append(calls, Call("literal_eval", idx, <<>>, TRUE))
                                   ELSE calls
                         IN  \E o \in {"ok", "import_raises", "init_raises"} :
                             CASE o = "import_raises" ->
                                    /\ calls' = Append(c0, Call("import_helper", idx, <<>>, FALSE))
                                    /\ log' = lfail
                                    /\ loaded_devs' = loaded_devs
                               [] o = "init_raises" ->
                                    /\ calls' = c0 \o <<Call("import_helper", idx, <<>>, TRUE),
                                                        Call("klass", idx, kwargs, FALSE)>>
                                    /\ log' = lfail
                                    /\ loaded_devs' = loaded_devs
                               [] o = "ok" ->
                                    /\ calls' = c0 \o <<Call("import_helper", idx, <<>>, TRUE),
                                                        Call("klass", idx, kwargs, TRUE)>>
                                    /\ log' = l0
                                    /\ loaded_devs' = AppendDevice(loaded_devs, KlassDevice(idx, kwargs))
           ELSE IF ~happi_enabled
                THEN /\ calls' = calls
                     /\ log' = logger_error(l0, "Happi not available. Unable to load entry: %r", idx)
                     /\ loaded_devs' = loaded_devs
                ELSE \E ok \in BOOLEAN :
                     /\ calls' = Append(calls, Call("load_device", idx, <<>>, ok))
                     /\ IF ok
                        THEN /\ log' = l0
                             /\ loaded_devs' = AppendDevice(loaded_devs, HappiDevice(idx))
                        ELSE /\ log' = logger_exception(l0, "Unable to load Happi entry: %r", idx)
                             /\ loaded_devs' = loaded_devs
    /\ idx' = idx + 1
    /\ pc' = "cs_loop"
    /\ UNCHANGED <<process_vars, caller, args, happi_enabled, client, add_idx, suite,
                   cs_state, result, rx_vars>>

\* line 127
MakesSuite(devs, devices) == devs # <<>> \/ devices = <<>>

\* suite.default_tools (line 131)
DefaultTools == {"Log", "StripTool", "Console"}

\* what the caller of create_suite does with the value returned: typhos_cli
\* goes on at line 154, other callers have their result
CreateSuiteReturns(value) ==
    /\ cs_state' = "returned"
    /\ IF caller = "cli"
       THEN pc' = "cli_window" /\ result' = result
       ELSE pc' = "done" /\ result' = value

\* create_suite, lines 127-136, and the return of None at the end of the
\* function when no suite is made
BuildSuite ==
    /\ pc = "cs_loop"
    /\ idx > Len(args.devices)
    /\ IF MakesSuite(loaded_devs, args.devices)
       THEN /\ suite' = [made |-> TRUE, tools |-> DefaultTools \ {"StripTool"},
                         devices |-> <<>>, shown |-> <<>>]
            /\ calls' = Append(calls, Call("TyphosSuite", 0, <<>>, TRUE))
            /\ log' = LET l1 == logger_debug(log, "Creating empty TyphosSuite ...", 0)
                          l2 == logger_info(l1, "Loading Tools ...", 0)
                      IN  IF args.devices # <<>> THEN logger_info(l2, "Adding devices ...", 0)
                          ELSE l2
            /\ pc' = "cs_add"
            /\ UNCHANGED <<cs_state, result>>
       ELSE /\ suite' = suite
            /\ calls' = calls
            /\ log' = log
            /\ CreateSuiteReturns(None)
    /\ UNCHANGED <<process_vars, caller, args, happi_enabled, client, loaded_devs, idx,
                   add_idx, rx_vars>>

\* create_suite, one turn of the loop of lines 137-143
AddDevice ==
    /\ pc = "cs_add"
    /\ add_idx <= Len(loaded_devs)
    /\ LET device == loaded_devs[add_idx]
           lfail == logger_exception(log, "Unable to add %r to TyphosSuite", device.i)
       IN  \E o \in {"ok", "add_raises", "show_raises"} :
           CASE o = "add_raises" ->
                  /\ calls' = Append(calls, Call("add_device", device.i, <<>>, FALSE))
                  /\ suite' = suite
                  /\ log' = lfail
             [] o = "show_raises" ->
                  /\ calls' = calls \o <<Call("add_device", device.i, <<>>, TRUE),
                                         Call("show_subdisplay", device.i, <<>>, FALSE)>>
                  /\ suite' = [suite EXCEPT !.devices = Append(@, device)]
                  /\ log' = lfail
             [] o = "ok" ->
                  /\ calls' = calls \o <<Call("add_device", device.i, <<>>, TRUE),
                                         Call("show_subdisplay", device.i, <<>>, TRUE)>>
                  /\ suite' = [suite EXCEPT !.devices = Append(@, device),
                                            !.shown = Append(@, device)]
                  /\ log' = log
    /\ add_idx' = add_idx + 1
    /\ pc' = "cs_add"
    /\ UNCHANGED <<process_vars, caller, args, happi_enabled, client, loaded_devs, idx,
                   cs_state, result, rx_vars>>

\* create_suite, line 144
ReturnSuite ==
    /\ pc = "cs_add"
    /\ add_idx > Len(loaded_devs)
    /\ CreateSuiteReturns("suite")
    /\ UNCHANGED <<process_vars, caller, args, happi_enabled, client, loaded_devs, idx,
                   add_idx, suite, calls, log, rx_vars>>

\* line 154: the value create_suite returned is a suite, not None
IsSuite(s) == s.made

\* typhos_cli, lines 154-161
TyphosCliWindow ==
    /\ pc = "cli_window"
    /\ IF IsSuite(suite)
       THEN /\ calls' = calls \o <<Call("QMainWindow", 0, <<>>, TRUE),
                                   Call("setCentralWidget", 0, <<>>, TRUE),
                                   Call("show", 0, <<>>, TRUE),
                                   Call("exec_", 0, <<>>, TRUE)>>
            /\ log' = logger_info(logger_info(log, "Launching application ...", 0),
                                  "Execution complete!", 0)
            /\ result' = "window"
       ELSE /\ calls' = calls
            /\ log' = log
            /\ result' = None
    /\ pc' = "done"
    /\ UNCHANGED <<process_vars, frame_vars, rx_vars>>

\* typhos.plugins.happi.register_client(client), called between two calls by
\* other code of the process
RegisterClient ==
    /\ pc = "idle"
    /\ happi_importable
    /\ HappiClientState_client = None
    /\ HappiClientState_client' = "registered"
    /\ UNCHANGED <<app, happi_importable, ncalls, clients_built, pc, frame_vars, calls,
                   log, result, rx_vars>>

\* the call is over: its locals are gone, and the process is ready for the
\* next call
CallEnds ==
    /\ pc = "done"
    /\ pc' = "idle"
    /\ FreshFrame(None, NoArgs)
    /\ cs_state' = "notcalled"
    /\ UNCHANGED <<process_vars, rx_vars>>

Next ==
    \/ CallTyphosCli
    \/ CallCreateSuite
    \/ TyphosCliSetup
    \/ TyphosCliBody
    \/ ImportHappi
    \/ GetClient
    \/ LoadDevice
    \/ BuildSuite
    \/ AddDevice
    \/ ReturnSuite
    \/ TyphosCliWindow
    \/ CallEnds
    \/ RegisterClient

Spec == Init /\ [][Next]_vars

(***************************************************************************)
(* create_suite on its own: a process whose code calls create_suite and    *)
(* never typhos_cli.                                                       *)
(***************************************************************************)
NextSuite ==
    \/ CallCreateSuite
    \/ ImportHappi
    \/ GetClient
    \/ LoadDevice
    \/ BuildSuite
    \/ AddDevice
    \/ ReturnSuite
    \/ CallEnds
    \/ RegisterClient

SpecSuite == Init /\ [][NextSuite]_vars

(***************************************************************************)
(* The regular expression on its own: every token over the alphabet, up to *)
(* MaxTokLen characters, is given to klass_regex.findall.                  *)
(***************************************************************************)
InitRegex ==
    /\ InitProcess
    /\ happi_importable = FALSE
    /\ HappiClientState_client = None
    /\ rx_token \in AllTokens
    /\ rx_result = <<>>
    /\ rx_done = FALSE

RegexFindall ==
    /\ ~rx_done
    /\ rx_result' = klass_regex_findall(rx_token)
    /\ rx_done' = TRUE
    /\ UNCHANGED <<process_vars, pc, frame_vars, calls, log, result, rx_token>>

NextRegex == RegexFindall

SpecRegex == InitRegex /\ [][NextRegex]_vars

(***************************************************************************)
(* Properties.                                                             *)
(***************************************************************************)
CallsOf(fn) == {k \in 1..Len(calls) : calls[k].fn = fn}
ErrorsLogged == {k \in 1..Len(log) : log[k].level = "ERROR"}
Devices == args.devices

\* the loop of line 101 is over
AfterLoop ==
    \/ pc = "cs_loop" /\ idx > Len(Devices)
    \/ pc = "cs_add"
    \/ cs_state = "returned"

\* the class or the client returned a device for token i
TokenSucceeded(i) ==
    \E k \in 1..Len(calls) :
        calls[k].i = i /\ calls[k].fn \in {"klass", "load_device"} /\ calls[k].ok

\* the pattern matches nowhere in the token
NotClassSpec(tok) == \A i \in 1..Len(tok) : ~RegexMatchAt(tok, i).ok

\* the positions of the tokens the resolved devices come from, in list order
ResolvedTokens == [j \in 1..Len(loaded_devs) |-> loaded_devs[j].i]

\* the positions of the tokens that succeeded, in token order
SucceededTokens == SelectSeq([i \in 1..Len(Devices) |-> i], LAMBDA i : TokenSucceeded(i))

\* C1: after the loop, the resolved devices are those of exactly the tokens
\* that succeeded, one each, in the order of the tokens; and one turn of the
\* loop always leads to the next token, whatever the outcome of the token.
C1_OrderPreserved ==
    [][ /\ (pc = "cs_loop" /\ idx <= Len(Devices))
            => (pc' = "cs_loop" /\ idx' = idx + 1 /\ cs_state' = "running")
        /\ AfterLoop' => ResolvedTokens' = SucceededTokens' ]_vars

\* a list of two tokens of which the first failed and the second succeeded
C1_Witness ==
    /\ pc = "cs_add"
    /\ Len(Devices) = 2
    /\ ~TokenSucceeded(1)
    /\ Len(loaded_devs) = 1
    /\ loaded_devs[1].i = 2

\* no client could be built: the import failed or from_config raised
ClientUnavailable ==
    \E k \in 1..Len(calls) : calls[k].fn \in {"import happi", "from_config"} /\ ~calls[k].ok

\* C2: when no client can be built (dependency missing, or from_config
\* raising), create_suite raises nothing, and once it has returned every
\* lookup token was skipped with an error logged and every class token was
\* handled.
C2_ClientUnavailableRecovered ==
    ClientUnavailable =>
        /\ cs_state # "raised"
        /\ cs_state = "returned" =>
              \A i \in 1..Len(Devices) :
                  IF NotClassSpec(Devices[i])
                  THEN /\ \E k \in ErrorsLogged : log[k].i = i
                       /\ ~TokenSucceeded(i)
                  ELSE \E k \in 1..Len(calls) :
                          calls[k].i = i /\ calls[k].fn \in {"literal_eval", "import_helper"}

\* C3: the keyword arguments the class is called with are name = device
\* updated with the parsed mapping, the keys of the mapping winning; with no
\* bracket contents they are exactly name = device.
C3_KwargsMerged ==
    \A k \in CallsOf("klass") :
        LET a == klass_regex_findall(Devices[calls[k].i])[1].args
            parsed == literal_eval(a).value
            kwargs == calls[k].kwargs
        IN  IF a = <<>>
            THEN kwargs = <<[k |-> NameKey, v |-> StrVal(DeviceName)]>>
            ELSE /\ DictKeys(kwargs) = {NameKey} \cup DictKeys(parsed)
                 /\ Cardinality(DictKeys(kwargs)) = Len(kwargs)
                 /\ \A key \in DictKeys(parsed) : DictGet(kwargs, key) = DictGet(parsed, key)
                 /\ NameKey \notin DictKeys(parsed)
                       => DictGet(kwargs, NameKey) = StrVal(DeviceName)

\* the class was called for m.K[{'name':'x','p':1}], whose mapping has the name
C3_Witness ==
    \E k \in CallsOf("klass") :
        /\ Devices[calls[k].i] = TokKlassArgs
        /\ DictGet(calls[k].kwargs, NameKey) = StrVal(<<"x">>)
        /\ DictGet(calls[k].kwargs, <<"p">>) = IntVal(1)

\* C4: a token the pattern does not match is never imported, parsed or
\* instantiated as a class; once the loop has passed it, it was looked up in
\* the client if there is one, and not at all otherwise.
C4_LookupOnly ==
    LET plain == {i \in 1..Len(Devices) : NotClassSpec(Devices[i])}
    IN  /\ \A k \in 1..Len(calls) :
              calls[k].fn \in {"literal_eval", "import_helper", "klass"}
                  => calls[k].i \notin plain
        /\ \A i \in plain :
              (cs_state \in {"running", "returned"}
                  /\ pc # "cs_import" /\ pc # "cs_client" /\ i < idx)
                  => (happi_enabled <=> \E k \in CallsOf("load_device") : calls[k].i = i)

\* the plain name dev was looked up in the client
C4_Witness ==
    \E k \in CallsOf("load_device") : Devices[calls[k].i] = TokName /\ calls[k].ok

\* C5: with an empty token list create_suite, once over, has returned (not
\* raised) a suite and has resolved no device, whatever the state of the
\* client.
C5_EmptyListGivesSuite ==
    (Devices = <<>> /\ cs_state \in {"returned", "raised"})
        => (cs_state = "returned" /\ loaded_devs = <<>> /\ IsSuite(suite))

\* create_suite is over for the list of the single plain name, happi not
\* importable
C6_Case ==
    /\ cs_state \in {"returned", "raised"}
    /\ Len(Devices) = 1
    /\ NotClassSpec(Devices[1])
    /\ ~happi_importable

\* C6 as stated: one plain name and no happi give no device, no exception and
\* exactly one error logged.
C6_OneErrorLogged ==
    C6_Case => (cs_state = "returned" /\ loaded_devs = <<>> /\ Cardinality(ErrorsLogged) = 1)

\* C6 as amended: one plain name and no happi give no device, no exception and
\* exactly two errors logged, one for the import that failed and one for the
\* token that was skipped.
C6_TwoErrorsLogged ==
    C6_Case =>
        /\ cs_state = "returned"
        /\ loaded_devs = <<>>
        /\ ~IsSuite(suite)
        /\ Cardinality(ErrorsLogged) = 2
        /\ \E k \in ErrorsLogged : log[k].msg = "Unable to import happi to load devices!"
        /\ \E k \in ErrorsLogged :
              log[k].msg = "Happi not available. Unable to load entry: %r" /\ log[k].i = 1

C6_Witness == C6_Case /\ Devices = <<TokName>> /\ pc = "done"

GuiCalls == {"QApplication", "use_stylesheet", "open", "setStyleSheet", "TyphosSuite",
             "QMainWindow", "setCentralWidget", "show", "exec_"}

\* C7: with the version flag typhos_cli makes no QApplication, applies no
\* stylesheet, never calls create_suite, shows no window and starts no event
\* loop; it prints the version and returns None.
C7_VersionOnly ==
    (caller = "cli" /\ args.version) =>
        /\ \A k \in 1..Len(calls) : calls[k].fn \notin GuiCalls
        /\ cs_state = "notcalled"
        /\ pc \in {"setup", "cli_body", "done"}
        /\ pc # "setup" => CallsOf("print_version") # {}
        /\ pc = "done" => result = None

\* typhos_cli is over, called with the version flag, devices and a stylesheet
C7_Witness ==
    /\ caller = "cli"
    /\ args.version
    /\ Devices # <<>>
    /\ args.stylesheet # None
    /\ pc = "done"

\* C8 as stated: in one process from_config builds at most one client.
C8_AtMostOneClient == clients_built <= 1

\* C8 as amended: one call of create_suite builds at most one client, and only
\* when it finds the registered-client slot empty; it uses the registered
\* client otherwise; create_suite and typhos_cli never write the slot.
C8_OneClientPerCall ==
    [][ /\ clients_built' # clients_built
            => /\ pc = "cs_client"
               /\ HappiClientState_client = None
               /\ clients_built' = clients_built + 1
               /\ CallsOf("from_config") = {}
        /\ (pc = "cs_client" /\ happi_enabled /\ HappiClientState_client # None)
            => (client' = HappiClientState_client /\ CallsOf("from_config")' = {})
        /\ pc # "idle" => HappiClientState_client' = HappiClientState_client
        /\ Cardinality(CallsOf("from_config")') <= 1 ]_vars

\* a call has built a client, the slot being empty
C8_Witness == client = "new" /\ HappiClientState_client = None /\ clients_built = 1

\* a token that as a whole is an identifier, an opening bracket, an optional
\* object in braces, an optional comma and a closing bracket
WholeClassSpec(t) ==
    /\ IsLetter(t[1])
    /\ LET e == IdentEnd(t, 2)
       IN  /\ e < Len(t)
           /\ t[e] = "["
           /\ t[Len(t)] = "]"
           /\ LET inner == SubSeq(t, e + 1, Len(t) - 1)
                  body == IF inner # <<>> /\ inner[Len(inner)] = ","
                          THEN SubSeq(inner, 1, Len(inner) - 1) ELSE inner
              IN  \/ body = <<>>
                  \/ /\ Len(body) >= 2
                     /\ body[1] = "{"
                     /\ body[Len(body)] = "}"
                     /\ \A j \in 2..(Len(body) - 1) : body[j] \notin {"[", "]", "{", "}"}

\* C9: a token takes the class path exactly when as a whole it is a class
\* spec; a token with unbalanced or malformed brackets does not.
C9_OnlyWholeClassSpecs ==
    rx_done => (HasMatch(rx_result) <=> WholeClassSpec(rx_token))

\* C10: create_suite returns a suite exactly when a token resolved or the list
\* was empty; with no suite typhos_cli makes no window and starts no event
\* loop; with a suite every resolved device was given to add_device, in order.
C10_SuiteIffDevices ==
    /\ cs_state \in {"returned", "raised"}
          => ((cs_state = "returned" /\ IsSuite(suite))
                 <=> (loaded_devs # <<>> \/ Devices = <<>>))
    /\ (pc = "done" /\ caller = "cli" /\ ~IsSuite(suite))
          => (CallsOf("QMainWindow") = {} /\ CallsOf("exec_") = {} /\ result # "window")
    /\ (cs_state = "returned" /\ IsSuite(suite))
          => [j \in 1..Cardinality(CallsOf("add_device")) |->
                 calls[CHOOSE k \in CallsOf("add_device") :
                          Cardinality({m \in CallsOf("add_device") : m < k}) = j - 1].i]
               = [j \in 1..Len(loaded_devs) |-> loaded_devs[j].i]
====
